---- MODULE Spec2Model ----
(***************************************************************************)
(* better-auth-playwright: the test-data endpoints of src/server.ts (both  *)
(* definitions of testPlugin that the file holds) and the Playwright auth  *)
(* fixture of src/playwright.ts, as one state machine.                     *)
(*                                                                         *)
(* A request is a record that moves through the handler one await at a     *)
(* time.  The backend (internalAdapter) is the three tables users,         *)
(* accounts and sessions.  Emails are pairs <<local part, domain>>, so     *)
(* that email.split('@')[0] is a projection.                               *)
(***************************************************************************)
EXTENDS Integers, Sequences, FiniteSets, TLC

\* ------------------------------------------------------------- bounds
MaxPlugins == 2      \* longest list of registered test data plugins
MaxUsers == 2        \* user ids the backend hands out in one run
MaxRequests == 3     \* requests issued while the test body runs
MaxResources == 2    \* organizations and api keys the built-in extensions create

\* ---------------------------------------------------------- constants
None == "none"
NoId == 0

PluginIds == {"organization", "api-key", "mock"}
Emails == {<<"a", "test.local">>, <<"b", "test.local">>}
NoEmail == <<"", "">>
Names == {"Zed"}
Secrets == {"s1", "s2"}

\* The callers of the endpoints: the fixtures and a client of its own (a test
\* that calls the endpoints itself, or server code calling auth.api).
Fixtures == {"fx1", "fx2"}
Direct == "direct"
Callers == Fixtures \cup {Direct}

\* ---------------------------------------------------------- variables
VARIABLES
  impl,         \* which definition of testPlugin in server.ts is the one built
  secret,       \* options.secret ?? process.env.TEST_DATA_SECRET, None if unset
  testPlugins,  \* options.plugins ?? [], the ids in registration order
  users,        \* internalAdapter: the user table
  accounts,     \* internalAdapter: the account table
  sessions,     \* internalAdapter: the session table
  nextId,       \* the next id the backend hands out
  call,         \* per caller: the request in flight and the handler's locals
  fx,           \* per fixture: created[], the browser context, the position
  nreq,         \* requests issued by the test body so far
  defaults,     \* per built-in extension: the defaults its factory was given
  hooks,        \* "opaque": a registered plugin is any code, and a hook is one
                \* step with any outcome; "builtIn": the registered plugins are
                \* the package's own, and their hooks are followed from their
                \* start to their end with what they do to the backend
  ext           \* the built-in extensions' side: the onCreateUser being run
                \* on its own, the organizations and api keys created

vars == <<impl, secret, testPlugins, users, accounts, sessions, nextId,
          call, fx, nreq, defaults, hooks, ext>>

config == <<impl, secret, testPlugins, defaults, hooks>>
backend == <<users, accounts, sessions, nextId>>

\* ------------------------------------------------------------ helpers
RECURSIVE Reverse(_)
Reverse(s) == IF s = <<>> THEN <<>> ELSE Append(Reverse(Tail(s)), Head(s))

Range(s) == {s[i] : i \in 1..Len(s)}

\* The lists of distinct plugin ids of length <= MaxPlugins.
RegLists ==
  UNION {{s \in [1..n -> PluginIds] : \A i, j \in 1..n : s[i] = s[j] => i = j}
         : n \in 0..MaxPlugins}

\* plugin.onDeleteUser is optional (types.ts): the mock plugin of
\* tests/server.test.ts defines none, the two built-in plugins do.
HasOnDelete(p) == p # "mock"

\* email.split('@')[0]
LocalPart(email) == email[1]

\* The name as it would be without its default.
DefaultedNameAsGiven(name, email) == name

\* ctx.body.name ?? email.split('@')[0]
DefaultedName(name, email) == IF name = None THEN LocalPart(email) ELSE name

\* -------------------------------------------------------------- routes
\* The endpoints the plugin registers; a request for anything else finds no
\* endpoint and the router answers 404.
Route(method, path) ==
  CASE method = "POST" /\ path = "/test-data/user" -> "createTestUser"
    [] method = "DELETE" /\ path = "/test-data/user" -> "deleteTestUser"
    [] method = "GET" /\ path = "/test-data/capabilities" -> "getTestCapabilities"
    [] OTHER -> None

\* Gate with the header compared before the secret is looked at.
GateHeaderFirst(route, header) ==
  IF header # secret THEN 401
  ELSE IF secret = None THEN 404
  ELSE 0

\* The secret gate at the head of each handler: 0 = pass, else the status.
\* The second definition's getTestCapabilities compares no header.
Gate(route, header) ==
  IF secret = None THEN 404
  ELSE IF impl = 2 /\ route = "getTestCapabilities" THEN 0
  ELSE IF header # secret THEN 401
  ELSE 0

\* --------------------------------------------------- extension options
\* The plugins that come with the package; skip and name are the two option
\* keys both of them read.  An option is a key that is absent or has a value.
BuiltIn == {"organization", "api-key"}

Absent == "absent"
SkipValues == {Absent, "true", "false"}
DefaultNames == {Absent, "default-name"}
CallNames == {Absent, "override-name"}

NoOptions == [skip |-> Absent, name |-> Absent]
DefaultOptions == [skip : SkipValues, name : DefaultNames]
CallOptions == [skip : SkipValues, name : CallNames]

\* The spread as it would be with the two objects in the other order.
MergeDefaultsWin(d, o) ==
  [skip |-> IF d.skip # Absent THEN d.skip ELSE o.skip,
   name |-> IF d.name # Absent THEN d.name ELSE o.name]

\* { ...defaults, ...opts }: every key of opts, then the keys only defaults has
Merge(d, o) ==
  [skip |-> IF o.skip # Absent THEN o.skip ELSE d.skip,
   name |-> IF o.name # Absent THEN o.name ELSE d.name]

\* if (options.skip)
Truthy(v) == v = "true"

\* pluginData of a provisioning request: omitted, or a mapping in which a
\* plugin id has no entry, null, or an options object.
NoEntry == [kind |-> "absent", value |-> NoOptions]
NullEntry == [kind |-> "null", value |-> NoOptions]
Entry(o) == [kind |-> "value", value |-> o]

NoPluginData == [given |-> FALSE, entries |-> [p \in PluginIds |-> NoEntry]]

\* The options as they would be if every plugin were handed the entry of the
\* plugin registered first.
PluginOptsOfFirst(pluginData, p) ==
  IF ~pluginData.given THEN NoOptions
  ELSE IF pluginData.entries[testPlugins[1]].kind = "value"
  THEN pluginData.entries[testPlugins[1]].value
  ELSE NoOptions

\* ctx.body.pluginData?.[plugin.id] ?? {}
PluginOpts(pluginData, p) ==
  IF ~pluginData.given THEN NoOptions
  ELSE IF pluginData.entries[p].kind = "value" THEN pluginData.entries[p].value
  ELSE NoOptions

\* What a plugin's onCreateUser was handed as opts, once it was invoked.
NotInvoked == [called |-> FALSE, opts |-> NoOptions]
NoReceived == [p \in PluginIds |-> NotInvoked]

\* ----------------------------------------------------------- responses
\* pluginResults: a plugin's entry is unset until its onCreateUser returned
Unset == [kind |-> "unset", plugin |-> None, user |-> NoId]
NoResults == [p \in PluginIds |-> Unset]

NoResp ==
  [status |-> 0, body |-> None, plugin |-> None, rollbackFailed |-> FALSE,
   warnings |-> <<>>, cookie |-> NoId, user |-> NoId, email |-> NoEmail,
   name |-> None, session |-> NoId, plugins |-> NoResults, list |-> <<>>,
   json |-> TRUE, hasWarnings |-> FALSE, message |-> None, cookieOrg |-> NoId]

Resp(status, body) == [NoResp EXCEPT !.status = status, !.body = body]

Ok(resp) == resp.status >= 200 /\ resp.status <= 299

\* The response is the server's own, not an intermediary's page.
FromServer(resp) == resp.body # "not JSON"

IdleCall ==
  [pc |-> "idle", method |-> None, path |-> None, header |-> None,
   email |-> NoEmail, name |-> None, password |-> FALSE, hasRequest |-> TRUE,
   user |-> NoId, token |-> NoId, idx |-> 0, results |-> NoResults,
   errors |-> <<>>, createLog |-> <<>>, returned |-> <<>>, deleteLog |-> <<>>,
   thrown |-> <<>>, finalSession |-> None, pluginData |-> NoPluginData,
   running |-> {}, received |-> NoReceived, resp |-> NoResp]

Request(method, path, header, email, name, password, hasRequest) ==
  [IdleCall EXCEPT !.pc = "sent", !.method = method, !.path = path,
                   !.header = header, !.email = email, !.name = name,
                   !.password = password, !.hasRequest = hasRequest]

\* The test a caller runs in.  A test awaits each of its calls, so it has one
\* request in flight at most; tests of different workers run side by side.
Test(c) == IF c = "fx2" THEN 2 ELSE 1

TestIdle(c) == \A d \in Callers : Test(d) = Test(c) => call[d].pc = "idle"

Respond(c, resp) == call' = [call EXCEPT ![c].pc = "responded", ![c].resp = resp]

\* ------------------------------------------------------------- backend
UserByEmail(email) == {u \in users : u.email = email}
UserById(id) == {u \in users : u.id = id}
SessionByToken(t) == {s \in sessions : s.token = t}

\* internalAdapter.deleteUser: the user, and with it its sessions and accounts
UsersWithout(id) == {u \in users : u.id # id}
AccountsWithout(id) == {a \in accounts : a.userId # id}
SessionsWithout(id) == {s \in sessions : s.userId # id}

\* -------------------------------------------------- server: the router
\* The router and the gate as they would be if deleteTestUser compared the
\* header only after it had deleted the user.
ServerReceiveGateAfterDelete(c) ==
  /\ call[c].pc = "sent"
  /\ LET r == call[c]
         route == Route(r.method, r.path)
         g == IF route = None THEN 0 ELSE Gate(route, r.header)
         late == route = "deleteTestUser" /\ g = 401
         found == UserByEmail(r.email)
     IN /\ IF route = None
           THEN Respond(c, [Resp(404, "Not Found") EXCEPT !.json = FALSE])
           ELSE IF g = 404
           THEN Respond(c, Resp(404, "null"))
           ELSE IF g = 401
           THEN Respond(c, Resp(401, "Unauthorized"))
           ELSE IF route = "getTestCapabilities"
           THEN Respond(c, [Resp(200, "capabilities") EXCEPT !.list = testPlugins])
           ELSE call' = [call EXCEPT ![c].pc = route]
        /\ users' = IF late THEN users \ found ELSE users
        /\ accounts' = IF late
                       THEN {a \in accounts : \A u \in found : a.userId # u.id}
                       ELSE accounts
        /\ sessions' = IF late
                       THEN {x \in sessions : \A u \in found : x.userId # u.id}
                       ELSE sessions
  /\ UNCHANGED <<config, ext, nextId, fx, nreq>>

\* A request reaches the server: the router picks the endpoint, and the handler
\* starts with the secret gate.  getTestCapabilities has no await and answers
\* in the same step.
ServerReceive(c) ==
  /\ call[c].pc = "sent"
  /\ LET r == call[c]
         route == Route(r.method, r.path)
         g == IF route = None THEN 0 ELSE Gate(route, r.header)
     IN IF route = None
        THEN Respond(c, [Resp(404, "Not Found") EXCEPT !.json = FALSE])
        ELSE IF g = 404
        THEN Respond(c, Resp(404, "null"))
        ELSE IF g = 401
        THEN Respond(c, Resp(401, "Unauthorized"))
        ELSE IF route = "getTestCapabilities"
        THEN Respond(c, [Resp(200, "capabilities") EXCEPT !.list = testPlugins])
        ELSE call' = [call EXCEPT ![c].pc = route]
  /\ UNCHANGED <<config, ext, backend, fx, nreq>>

\* ------------------------------------------- server: createTestUser
\* ctx.context.password.hash(ctx.body.password)
HashedPassword == "hash"

\* Steps 1 to 3 as they would be with the credential account made always.
CreateBaseAlwaysAccount(c) ==
  /\ call[c].pc = "createTestUser"
  /\ LET r == call[c]
         id == nextId
     IN IF UserByEmail(r.email) # {}
        THEN /\ Respond(c, Resp(500, "Internal Server Error"))
             /\ UNCHANGED backend
        ELSE /\ nextId <= MaxUsers
             /\ users' = users \cup {[id |-> id, email |-> r.email,
                                       name |-> DefaultedName(r.name, r.email)]}
             /\ accounts' = accounts \cup {[userId |-> id,
                                             providerId |-> "credential",
                                             password |-> HashedPassword]}
             /\ sessions' = sessions \cup {[token |-> id, userId |-> id,
                                             activeOrganizationId |-> NoId]}
             /\ nextId' = nextId + 1
             /\ call' = [call EXCEPT ![c].pc = "plugins", ![c].user = id,
                                     ![c].token = id, ![c].idx = 1]
  /\ UNCHANGED <<config, ext, fx, nreq>>

\* Steps 1 to 3: adapter.createUser, the credential account when a password
\* was given, adapter.createSession.  The backend keeps emails unique, so
\* createUser throws for an email that is taken and the handler ends in the
\* framework's 500.
CreateBase(c) ==
  /\ call[c].pc = "createTestUser"
  /\ LET r == call[c]
         id == nextId
     IN IF UserByEmail(r.email) # {}
        THEN /\ Respond(c, Resp(500, "Internal Server Error"))
             /\ UNCHANGED backend
        ELSE /\ nextId <= MaxUsers
             /\ users' = users \cup {[id |-> id, email |-> r.email,
                                       name |-> DefaultedName(r.name, r.email)]}
             /\ accounts' = IF r.password
                            THEN accounts \cup {[userId |-> id,
                                                 providerId |-> "credential",
                                                 password |-> HashedPassword]}
                            ELSE accounts
             /\ sessions' = sessions \cup {[token |-> id, userId |-> id,
                                             activeOrganizationId |-> NoId]}
             /\ nextId' = nextId + 1
             /\ call' = [call EXCEPT ![c].pc = "plugins", ![c].user = id,
                                     ![c].token = id, ![c].idx = 1]
  /\ UNCHANGED <<config, ext, fx, nreq>>

\* What plugin.onCreateUser may do: return a value, return null (skipped), throw.
CreateOutcomes == {"value", "null", "throw"}

\* err.message of what a hook threw (String(err) when it is no Error)
HookError == "hook error"

\* The catch block as it would be if it ran the onDeleteUser of the plugins
\* whose onCreateUser was called, the failed one first.
RollbackRunsCleanup(c, p, rollbackOk) ==
  /\ users' = IF rollbackOk THEN UsersWithout(call[c].user) ELSE users
  /\ accounts' = IF rollbackOk THEN AccountsWithout(call[c].user) ELSE accounts
  /\ sessions' = IF rollbackOk THEN SessionsWithout(call[c].user) ELSE sessions
  /\ call' = [call EXCEPT
        ![c].pc = "responded",
        ![c].createLog = Append(@, p),
        ![c].thrown = Append(@, p),
        ![c].running = @ \ {p},
        ![c].deleteLog = Reverse(Append(call[c].createLog, p)),
        ![c].resp = [Resp(500, "Plugin failed") EXCEPT
                       !.plugin = p, !.message = HookError,
                       !.rollbackFailed = ~rollbackOk]]
  /\ UNCHANGED nextId

\* The catch block as it would be if it deleted the user created last,
\* whichever call created it.
RollbackDeletesLatest(c, p, rollbackOk) ==
  /\ users' = IF rollbackOk THEN UsersWithout(nextId - 1) ELSE users
  /\ accounts' = IF rollbackOk THEN AccountsWithout(nextId - 1) ELSE accounts
  /\ sessions' = IF rollbackOk THEN SessionsWithout(nextId - 1) ELSE sessions
  /\ call' = [call EXCEPT
        ![c].pc = "responded",
        ![c].createLog = Append(@, p),
        ![c].thrown = Append(@, p),
        ![c].running = @ \ {p},
        ![c].resp = [Resp(500, "Plugin failed") EXCEPT
                       !.plugin = p, !.message = HookError,
                       !.rollbackFailed = ~rollbackOk]]
  /\ UNCHANGED nextId

\* The catch block of the first definition: delete the user again, and answer
\* 500 naming the plugin; a failed rollback is noted in the message.
RollbackAndFail(c, p, rollbackOk) ==
  /\ users' = IF rollbackOk THEN UsersWithout(call[c].user) ELSE users
  /\ accounts' = IF rollbackOk THEN AccountsWithout(call[c].user) ELSE accounts
  /\ sessions' = IF rollbackOk THEN SessionsWithout(call[c].user) ELSE sessions
  /\ call' = [call EXCEPT
        ![c].pc = "responded",
        ![c].createLog = Append(@, p),
        ![c].thrown = Append(@, p),
        ![c].running = @ \ {p},
        ![c].resp = [Resp(500, "Plugin failed") EXCEPT
                       !.plugin = p, !.message = HookError,
                       !.rollbackFailed = ~rollbackOk]]
  /\ UNCHANGED nextId

\* The loop as it would be if a throw were swallowed and the next plugin run.
SwallowCreateThrow(c, p) ==
  /\ call' = [call EXCEPT ![c].createLog = Append(@, p),
                          ![c].thrown = Append(@, p),
                          ![c].running = @ \ {p},
                          ![c].idx = @ + 1]
  /\ UNCHANGED backend

\* The second definition has no try around onCreateUser: the throw leaves the
\* handler, the framework answers 500, and nothing is rolled back.
PropagateCreateThrow(c, p) ==
  /\ call' = [call EXCEPT ![c].pc = "responded",
                          ![c].createLog = Append(@, p),
                          ![c].thrown = Append(@, p),
                          ![c].running = @ \ {p},
                          ![c].resp = Resp(500, "Internal Server Error")]
  /\ UNCHANGED backend

\* A hook that is followed: it has a start and an end, and does what the
\* built-in extension's code does.
Followed(p) == hooks = "builtIn" /\ p \in BuiltIn

\* const options = { ...defaults, ...opts } of the built-in extension p
HookOptions(c, p) == Merge(defaults[p], PluginOpts(call[c].pluginData, p))

\* options.name ?? `${ctx.user.name}'s Org`, options.name ?? 'test-key'
ResourceName(p, options) ==
  IF options.name # Absent THEN options.name
  ELSE IF p = "organization" THEN "user's Org" ELSE "test-key"

\* What a built-in onCreateUser that does not skip leaves behind: the
\* organization with the user as its member and the session's
\* activeOrganizationId, or the api key of the user.
HookCreates(c, p) ==
  LET id == ext.nextRes
      name == ResourceName(p, HookOptions(c, p))
  IN /\ ext.nextRes <= MaxResources
     /\ IF p = "organization"
        THEN /\ ext' = [ext EXCEPT
                   !.orgs = @ \cup {[id |-> id, name |-> name,
                                      member |-> call[c].user, role |-> "owner"]},
                   !.nextRes = @ + 1]
             /\ sessions' = {IF x.token = call[c].token
                              THEN [x EXCEPT !.activeOrganizationId = id]
                              ELSE x : x \in sessions}
        ELSE /\ ext' = [ext EXCEPT
                   !.keys = @ \cup {[id |-> id, userId |-> call[c].user,
                                      name |-> name]},
                   !.nextRes = @ + 1]
             /\ UNCHANGED sessions
     /\ UNCHANGED <<users, accounts, nextId>>

\* The loop as it would be if it stored a result only when it is not null.
PluginStepDropsNull(c, outcome, rollbackOk) ==
  /\ call[c].pc = "plugins"
  /\ call[c].idx <= Len(testPlugins)
  /\ LET p == testPlugins[call[c].idx]
         noRequest == impl = 1 /\ ~call[c].hasRequest
     IN /\ (Followed(p) /\ ~noRequest) =>
             /\ p \in call[c].running
             /\ outcome = "null" <=> Truthy(HookOptions(c, p).skip)
        /\ IF noRequest
           THEN /\ outcome = "value" /\ rollbackOk
                /\ Respond(c, Resp(500, "request object missing"))
                /\ UNCHANGED <<backend, ext>>
           ELSE IF outcome = "throw"
           THEN /\ IF impl = 1
                   THEN RollbackAndFail(c, p, rollbackOk)
                   ELSE rollbackOk /\ PropagateCreateThrow(c, p)
                /\ UNCHANGED ext
           ELSE /\ rollbackOk
                /\ call' = [call EXCEPT
                      ![c].createLog = Append(@, p),
                      ![c].returned = Append(@, outcome),
                      ![c].running = @ \ {p},
                      ![c].results[p] = IF outcome = "null"
                                        THEN @
                                        ELSE [kind |-> "value", plugin |-> p,
                                              user |-> call[c].user],
                      ![c].idx = @ + 1]
                /\ IF Followed(p) /\ outcome = "value"
                   THEN HookCreates(c, p)
                   ELSE UNCHANGED <<backend, ext>>
  /\ UNCHANGED <<config, fx, nreq>>

\* Step 4, one turn of the loop over testPlugins: the hook ends (a followed
\* hook was started before), with a value, with null, or throwing.
PluginStep(c, outcome, rollbackOk) ==
  /\ call[c].pc = "plugins"
  /\ call[c].idx <= Len(testPlugins)
  /\ LET p == testPlugins[call[c].idx]
         noRequest == impl = 1 /\ ~call[c].hasRequest
     IN /\ (Followed(p) /\ ~noRequest) =>
             /\ p \in call[c].running
             /\ outcome = "null" <=> Truthy(HookOptions(c, p).skip)
        /\ IF noRequest
           THEN /\ outcome = "value" /\ rollbackOk
                /\ Respond(c, Resp(500, "request object missing"))
                /\ UNCHANGED <<backend, ext>>
           ELSE IF outcome = "throw"
           THEN /\ IF impl = 1
                   THEN RollbackAndFail(c, p, rollbackOk)
                   ELSE rollbackOk /\ PropagateCreateThrow(c, p)
                /\ UNCHANGED ext
           ELSE /\ rollbackOk
                /\ call' = [call EXCEPT
                      ![c].createLog = Append(@, p),
                      ![c].returned = Append(@, outcome),
                      ![c].running = @ \ {p},
                      ![c].results[p] = IF outcome = "null"
                                        THEN [kind |-> "null", plugin |-> p,
                                              user |-> call[c].user]
                                        ELSE [kind |-> "value", plugin |-> p,
                                              user |-> call[c].user],
                      ![c].idx = @ + 1]
                /\ IF Followed(p) /\ outcome = "value"
                   THEN HookCreates(c, p)
                   ELSE UNCHANGED <<backend, ext>>
  /\ UNCHANGED <<config, fx, nreq>>

\* Steps 5 to 7: re-fetch the session, set the session cookie, answer.  The
\* first definition fails when the session is gone, the second falls back to
\* the session created in step 3.
Finalize(c) ==
  /\ call[c].pc = "plugins"
  /\ call[c].idx > Len(testPlugins)
  /\ LET r == call[c]
         finalSession == SessionByToken(r.token)
         found == IF finalSession = {} THEN "missing" ELSE "found"
     IN call' = [call EXCEPT
          ![c].pc = "responded",
          ![c].finalSession = found,
          ![c].resp =
            IF finalSession = {} /\ impl = 1
            THEN Resp(500, "Session lookup failed")
            ELSE [Resp(200, "user") EXCEPT
                    !.cookie = r.token,
                    !.cookieOrg =
                      IF finalSession = {} THEN NoId
                      ELSE (CHOOSE x \in finalSession : TRUE).activeOrganizationId,
                    !.user = r.user, !.email = r.email,
                    !.name = DefaultedName(r.name, r.email),
                    !.session = r.token, !.plugins = r.results]]
  /\ UNCHANGED <<config, ext, backend, fx, nreq>>

\* ------------------------------------------- server: deleteTestUser
\* The lookup as it would be if the handler went on without a user.
FindUserProceeds(c) ==
  /\ call[c].pc = "deleteTestUser"
  /\ LET found == UserByEmail(call[c].email)
     IN call' = [call EXCEPT ![c].pc = "cleanup",
                             ![c].user = IF found = {} THEN NoId
                                         ELSE (CHOOSE u \in found : TRUE).id,
                             ![c].idx = 1]
  /\ UNCHANGED <<config, ext, backend, fx, nreq>>

\* adapter.findUserByEmail(ctx.body.email); 404 when there is none.
FindUser(c) ==
  /\ call[c].pc = "deleteTestUser"
  /\ LET found == UserByEmail(call[c].email)
     IN IF found = {}
        THEN Respond(c, Resp(404, "User not found"))
        ELSE call' = [call EXCEPT ![c].pc = "cleanup",
                                  ![c].user = (CHOOSE u \in found : TRUE).id,
                                  ![c].idx = 1]
  /\ UNCHANGED <<config, ext, backend, fx, nreq>>

\* [...testPlugins].reverse()
CleanupOrder == Reverse(testPlugins)

DeleteOutcomes == {"done", "throw"}

\* onDeleteUser as it would be if it deleted nothing.
HookDeletesNothing(c, p) == UNCHANGED ext

\* What a built-in onDeleteUser that ends well has done: the organizations
\* the user is a member of are deleted, or the user's api keys.
HookDeletes(c, p) ==
  IF Followed(p)
  THEN ext' = [ext EXCEPT
         !.orgs = IF p = "organization"
                  THEN {o \in @ : o.member # call[c].user} ELSE @,
         !.keys = IF p = "api-key"
                  THEN {k \in @ : k.userId # call[c].user} ELSE @]
  ELSE UNCHANGED ext

\* One turn of the loop over the reversed list: the hook ends (a followed hook
\* was started before).  The first definition catches a throw and records it;
\* the second has no try, so the throw leaves the handler before the user is
\* deleted.
CleanupStep(c, outcome) ==
  /\ call[c].pc = "cleanup"
  /\ call[c].idx <= Len(CleanupOrder)
  /\ LET p == CleanupOrder[call[c].idx]
     IN /\ (Followed(p) /\ HasOnDelete(p)) => p \in call[c].running
        /\ IF ~HasOnDelete(p)
           THEN /\ outcome = "done"
                /\ call' = [call EXCEPT ![c].idx = @ + 1]
                /\ UNCHANGED ext
           ELSE IF outcome = "done"
           THEN /\ call' = [call EXCEPT ![c].deleteLog = Append(@, p),
                                        ![c].running = @ \ {p},
                                        ![c].idx = @ + 1]
                /\ HookDeletes(c, p)
           ELSE IF impl = 1
           THEN /\ call' = [call EXCEPT ![c].deleteLog = Append(@, p),
                                        ![c].thrown = Append(@, p),
                                        ![c].errors = Append(@, p),
                                        ![c].running = @ \ {p},
                                        ![c].idx = @ + 1]
                /\ UNCHANGED ext
           ELSE /\ call' = [call EXCEPT
                      ![c].pc = "responded",
                      ![c].deleteLog = Append(@, p),
                      ![c].thrown = Append(@, p),
                      ![c].running = @ \ {p},
                      ![c].resp = Resp(500, "Internal Server Error")]
                /\ UNCHANGED ext
  /\ UNCHANGED <<config, backend, fx, nreq>>

\* --------------------------------------- server: a followed hook starts
\* The start as it would be if the loops did not await a hook before they
\* call the next.
HookStartsUnawaited(c) ==
  /\ hooks = "builtIn"
  /\ LET k == call[c].idx + Cardinality(call[c].running)
     IN \/ /\ call[c].pc = "plugins"
           /\ k <= Len(testPlugins)
           /\ impl = 1 => call[c].hasRequest
           /\ call' = [call EXCEPT
                 ![c].running = @ \cup {testPlugins[k]},
                 ![c].received[testPlugins[k]] =
                   [called |-> TRUE,
                    opts |-> PluginOpts(call[c].pluginData, testPlugins[k])]]
        \/ /\ call[c].pc = "cleanup"
           /\ k <= Len(CleanupOrder)
           /\ HasOnDelete(CleanupOrder[k])
           /\ call' = [call EXCEPT ![c].running = @ \cup {CleanupOrder[k]}]
  /\ UNCHANGED <<config, ext, backend, fx, nreq>>

\* await plugin.onCreateUser(pluginCtx, pluginOpts) and await
\* plugin.onDeleteUser(ctx.context, found.user): the loop calls the hook of
\* the plugin it is at, and no hook of this call is in progress then.
HookStarts(c) ==
  /\ hooks = "builtIn"
  /\ call[c].running = {}
  /\ LET k == call[c].idx
     IN \/ /\ call[c].pc = "plugins"
           /\ k <= Len(testPlugins)
           /\ impl = 1 => call[c].hasRequest
           /\ call' = [call EXCEPT
                 ![c].running = {testPlugins[k]},
                 ![c].received[testPlugins[k]] =
                   [called |-> TRUE,
                    opts |-> PluginOpts(call[c].pluginData, testPlugins[k])]]
        \/ /\ call[c].pc = "cleanup"
           /\ k <= Len(CleanupOrder)
           /\ HasOnDelete(CleanupOrder[k])
           /\ call' = [call EXCEPT ![c].running = {CleanupOrder[k]}]
  /\ UNCHANGED <<config, ext, backend, fx, nreq>>

\* The answer as it would be with the warnings key always there.
DeleteUserAlwaysList(c) ==
  /\ call[c].pc = "cleanup"
  /\ call[c].idx > Len(CleanupOrder)
  /\ users' = UsersWithout(call[c].user)
  /\ accounts' = AccountsWithout(call[c].user)
  /\ sessions' = SessionsWithout(call[c].user)
  /\ Respond(c, [Resp(200, "success") EXCEPT
                  !.hasWarnings = TRUE,
                  !.warnings = call[c].errors])
  /\ UNCHANGED <<config, ext, nextId, fx, nreq>>

\* adapter.deleteUser(found.user.id), then { success: true }, with the key
\* warnings only when cleanupErrors is not empty (the second definition never
\* has an error to report: a throw has left its handler before).
DeleteUser(c) ==
  /\ call[c].pc = "cleanup"
  /\ call[c].idx > Len(CleanupOrder)
  /\ users' = UsersWithout(call[c].user)
  /\ accounts' = AccountsWithout(call[c].user)
  /\ sessions' = SessionsWithout(call[c].user)
  /\ Respond(c, [Resp(200, "success") EXCEPT
                  !.hasWarnings = Len(call[c].errors) > 0,
                  !.warnings = call[c].errors])
  /\ UNCHANGED <<config, ext, nextId, fx, nreq>>

\* ------------------------------------------------- the direct client
\* Requests to the three endpoints with any header; hasRequest is FALSE for a
\* call through auth.api, which hands the handler no Request object.
Headers == {None} \cup Secrets

Issue(c, req) ==
  /\ TestIdle(c)
  /\ nreq < MaxRequests
  /\ nreq' = nreq + 1
  /\ call' = [call EXCEPT ![c] = req]

\* A request of somebody else ends a fixture's createUser/cleanup round trip.
Interrupted(f) ==
  [fx[f] EXCEPT !.rt = [stage |-> "none", email |-> NoEmail],
                !.last = [op |-> None, email |-> NoEmail, outcome |-> None,
                          cause |-> None, status |-> 0, body |-> None,
                          user |-> NoId, warned |-> FALSE]]

DirectProvision(header, email, name, password, hasRequest) ==
  /\ nextId <= MaxUsers
  /\ Issue(Direct, Request("POST", "/test-data/user", header, email, name,
                           password, hasRequest))
  /\ fx' = [f \in Fixtures |-> Interrupted(f)]
  /\ UNCHANGED <<config, ext, backend>>

\* A provisioning request that carries pluginData.
DirectProvisionWith(header, email, pluginData) ==
  /\ nextId <= MaxUsers
  /\ Issue(Direct, [Request("POST", "/test-data/user", header, email, None,
                             FALSE, TRUE) EXCEPT !.pluginData = pluginData])
  /\ fx' = [f \in Fixtures |-> Interrupted(f)]
  /\ UNCHANGED <<config, ext, backend>>

DirectDeprovision(header, email) ==
  /\ Issue(Direct, Request("DELETE", "/test-data/user", header, email, None,
                           FALSE, TRUE))
  /\ fx' = [f \in Fixtures |-> Interrupted(f)]
  /\ UNCHANGED <<config, ext, backend>>

DirectCapabilities(header) ==
  /\ Issue(Direct, Request("GET", "/test-data/capabilities", header, NoEmail,
                           None, FALSE, TRUE))
  /\ fx' = [f \in Fixtures |-> Interrupted(f)]
  /\ UNCHANGED <<config, ext, backend>>

DirectConsume ==
  /\ call[Direct].pc = "responded"
  /\ call' = [call EXCEPT ![Direct] = IdleCall]
  /\ UNCHANGED <<config, ext, backend, fx, nreq>>

\* ------------------------------------------- the fixture: createUser
\* config.secret of createTestFixtures
FxSecret == "s1"

NoLast ==
  [op |-> None, email |-> NoEmail, outcome |-> None, cause |-> None,
   status |-> 0, body |-> None, user |-> NoId, warned |-> FALSE]

NoRt == [stage |-> "none", email |-> NoEmail]

FxInit(on) ==
  [pc |-> IF on THEN "body" ELSE "off", created |-> <<>>, cookies |-> {},
   cleaned |-> <<>>, i |-> 0, exit |-> None, aborted |-> FALSE, warnings |-> 0,
   last |-> NoLast, rt |-> NoRt]

\* auth.createUser(options): the fetch of POST {basePath}/test-data/user.  The
\* email is options.email or a random one; either way one of Emails.
FxCreateUser(f, email, name, password) ==
  /\ fx[f].pc = "body"
  /\ nextId <= MaxUsers
  /\ Issue(f, Request("POST", "/test-data/user", FxSecret, email, name,
                      password, TRUE))
  /\ fx' = [g \in Fixtures |->
             IF g = f THEN [fx[f] EXCEPT !.pc = "createUser", !.rt = NoRt,
                                          !.last = NoLast]
             ELSE Interrupted(g)]
  /\ UNCHANGED <<config, ext, backend>>

\* createUser as it would be if it pushed the email before its fetch.
CreateUserOutcomeTracksFirst(transportFailed, resp, addCookiesFails) ==
  LET threw(cause, tracked) ==
        [outcome |-> "threw", cause |-> cause, tracked |-> tracked,
         status |-> 0, body |-> None, cookie |-> NoId, user |-> NoId]
  IN IF transportFailed THEN threw("transport", TRUE)
     ELSE IF ~Ok(resp)
     THEN [threw("status", TRUE) EXCEPT !.status = resp.status,
                                         !.body = resp.body]
     ELSE IF ~resp.json THEN threw("parse", TRUE)
     ELSE IF resp.cookie # NoId /\ addCookiesFails THEN threw("addCookies", TRUE)
     ELSE [outcome |-> "returned", cause |-> None, tracked |-> TRUE,
           status |-> resp.status, body |-> resp.body, cookie |-> resp.cookie,
           user |-> resp.user]

\* createUser as it would be if it pushed the email after addCookies.
CreateUserOutcomeTracksLast(transportFailed, resp, addCookiesFails) ==
  LET threw(cause, tracked) ==
        [outcome |-> "threw", cause |-> cause, tracked |-> tracked,
         status |-> 0, body |-> None, cookie |-> NoId, user |-> NoId]
  IN IF transportFailed THEN threw("transport", FALSE)
     ELSE IF ~Ok(resp)
     THEN [threw("status", FALSE) EXCEPT !.status = resp.status,
                                          !.body = resp.body]
     ELSE IF ~resp.json THEN threw("parse", FALSE)
     ELSE IF resp.cookie # NoId /\ addCookiesFails THEN threw("addCookies", FALSE)
     ELSE [outcome |-> "returned", cause |-> None, tracked |-> TRUE,
           status |-> resp.status, body |-> resp.body, cookie |-> resp.cookie,
           user |-> resp.user]

\* createUser as it would be without the check of res.ok.
CreateUserOutcomeIgnoresStatus(transportFailed, resp, addCookiesFails) ==
  LET threw(cause, tracked) ==
        [outcome |-> "threw", cause |-> cause, tracked |-> tracked,
         status |-> 0, body |-> None, cookie |-> NoId, user |-> NoId]
  IN IF transportFailed THEN threw("transport", FALSE)
     ELSE IF ~resp.json THEN threw("parse", FALSE)
     ELSE IF resp.cookie # NoId /\ addCookiesFails THEN threw("addCookies", TRUE)
     ELSE [outcome |-> "returned", cause |-> None, tracked |-> TRUE,
           status |-> resp.status, body |-> resp.body, cookie |-> resp.cookie,
           user |-> resp.user]

\* What createUser does with the outcome of its fetch: throws when the fetch
\* rejected, throws with the status and the body text when the response is not
\* ok, throws when res.json() cannot parse the body; else pushes the email onto
\* created, installs the cookies (context.addCookies may reject) and returns
\* the TestUser.
CreateUserOutcome(transportFailed, resp, addCookiesFails) ==
  LET threw(cause, tracked) ==
        [outcome |-> "threw", cause |-> cause, tracked |-> tracked,
         status |-> 0, body |-> None, cookie |-> NoId, user |-> NoId]
  IN IF transportFailed THEN threw("transport", FALSE)
     ELSE IF ~Ok(resp)
     THEN [threw("status", FALSE) EXCEPT !.status = resp.status,
                                          !.body = resp.body]
     ELSE IF ~resp.json THEN threw("parse", FALSE)
     ELSE IF resp.cookie # NoId /\ addCookiesFails THEN threw("addCookies", TRUE)
     ELSE [outcome |-> "returned", cause |-> None, tracked |-> TRUE,
           status |-> resp.status, body |-> resp.body, cookie |-> resp.cookie,
           user |-> resp.user]

\* What can happen to a fetch: the transport fails (before the request reached
\* the server, or after the server answered), or the response arrives; and
\* then installing its cookies may fail.
FetchEnvs == {"transport", "fine", "addCookiesFails"}

FetchEnds(f, env) ==
  /\ call[f].pc \in {"sent", "responded"}
  /\ env # "transport" => call[f].pc = "responded"
  /\ env = "addCookiesFails" =>
       /\ Ok(call[f].resp) /\ call[f].resp.json /\ call[f].resp.cookie # NoId

\* Something between the fixture and the server (a proxy, the app's own
\* catch-all page) answers the request itself: 200 with a body that is no JSON.
Intermediary(f) ==
  /\ call[f].pc = "sent"
  /\ Respond(f, [Resp(200, "not JSON") EXCEPT !.json = FALSE])
  /\ UNCHANGED <<config, ext, backend, fx, nreq>>

\* createUser as it would be with one created list shared by all fixtures.
FxCreateUserEndsShared(f, env) ==
  /\ fx[f].pc = "createUser"
  /\ FetchEnds(f, env)
  /\ LET out == CreateUserOutcome(env = "transport", call[f].resp,
                                  env = "addCookiesFails")
         email == call[f].email
     IN fx' = [g \in Fixtures |->
          IF g # f
          THEN [fx[g] EXCEPT !.created = IF out.tracked THEN Append(@, email)
                                         ELSE @]
          ELSE [fx[f] EXCEPT
                  !.pc = "body",
                  !.created = IF out.tracked THEN Append(@, email) ELSE @,
                  !.cookies = IF out.outcome = "returned" /\ out.cookie # NoId
                              THEN @ \cup {out.cookie} ELSE @,
                  !.last = [op |-> "createUser", email |-> email,
                            outcome |-> out.outcome, cause |-> out.cause,
                            status |-> out.status, body |-> out.body,
                            user |-> out.user, warned |-> FALSE],
                  !.rt = IF out.outcome = "returned"
                         THEN [stage |-> "created", email |-> email]
                         ELSE NoRt]]
  /\ call' = [call EXCEPT ![f] = IdleCall]
  /\ UNCHANGED <<config, ext, backend, nreq>>

\* The fetch of createUser ends: thrown error or TestUser, created, cookies.
FxCreateUserEnds(f, env) ==
  /\ fx[f].pc = "createUser"
  /\ FetchEnds(f, env)
  /\ LET out == CreateUserOutcome(env = "transport", call[f].resp,
                                  env = "addCookiesFails")
         email == call[f].email
     IN fx' = [fx EXCEPT
          ![f].pc = "body",
          ![f].created = IF out.tracked THEN Append(@, email) ELSE @,
          ![f].cookies = IF out.outcome = "returned" /\ out.cookie # NoId
                         THEN @ \cup {out.cookie} ELSE @,
          ![f].last = [op |-> "createUser", email |-> email,
                       outcome |-> out.outcome, cause |-> out.cause,
                       status |-> out.status, body |-> out.body,
                       user |-> out.user, warned |-> FALSE],
          ![f].rt = IF out.outcome = "returned"
                    THEN [stage |-> "created", email |-> email] ELSE NoRt]
  /\ call' = [call EXCEPT ![f] = IdleCall]
  /\ UNCHANGED <<config, ext, backend, nreq>>

\* ---------------------------------------------- the fixture: cleanup
CleanupRequest(email) ==
  Request("POST", "/test-data/delete-user", FxSecret, email, None, FALSE, TRUE)

\* The round trip createUser, cleanup of the same email, nothing in between.
RtOnCleanup(f, email) ==
  IF fx[f].rt = [stage |-> "created", email |-> email]
  THEN [stage |-> "cleaning", email |-> email] ELSE NoRt

\* auth.cleanup(email) called by the test body.
FxCleanup(f, email) ==
  /\ fx[f].pc = "body"
  /\ Issue(f, CleanupRequest(email))
  /\ fx' = [g \in Fixtures |->
             IF g = f THEN [fx[f] EXCEPT !.pc = "cleanup", !.last = NoLast,
                                          !.rt = RtOnCleanup(f, email)]
             ELSE Interrupted(g)]
  /\ UNCHANGED <<config, ext, backend>>

\* cleanup as it would be if it threw for a response that is not ok.
CleanupOutcomeThrows(transportFailed, resp) ==
  IF transportFailed THEN [threw |-> FALSE, warned |-> TRUE]
  ELSE IF ~Ok(resp) THEN [threw |-> TRUE, warned |-> FALSE]
  ELSE IF ~resp.json THEN [threw |-> FALSE, warned |-> TRUE]
  ELSE [threw |-> FALSE, warned |-> Len(resp.warnings) > 0]

\* cleanup as it would be with res.json() outside its try.
CleanupOutcomeParseUnguarded(transportFailed, resp) ==
  IF transportFailed THEN [threw |-> FALSE, warned |-> TRUE]
  ELSE IF ~Ok(resp) THEN [threw |-> FALSE, warned |-> TRUE]
  ELSE IF ~resp.json THEN [threw |-> TRUE, warned |-> FALSE]
  ELSE [threw |-> FALSE, warned |-> Len(resp.warnings) > 0]

\* What cleanup does with the outcome of its fetch; everything is inside its
\* try, so a rejected fetch and an unparsable body end in the catch's warning.
CleanupOutcome(transportFailed, resp) ==
  IF transportFailed THEN [threw |-> FALSE, warned |-> TRUE]
  ELSE IF ~Ok(resp) THEN [threw |-> FALSE, warned |-> TRUE]
  ELSE IF ~resp.json THEN [threw |-> FALSE, warned |-> TRUE]
  ELSE [threw |-> FALSE, warned |-> Len(resp.warnings) > 0]

\* for (const email of created) await auth.cleanup(email): the next turn
\* follows when cleanup returned; a throw would leave the loop.
AfterCleanup(pc, threw) ==
  IF pc = "cleanup" THEN "body"
  ELSE IF threw THEN "done" ELSE "teardown"

FxCleanupEnds(f, env) ==
  /\ fx[f].pc \in {"cleanup", "teardownCleanup"}
  /\ env # "addCookiesFails"
  /\ FetchEnds(f, env)
  /\ LET out == CleanupOutcome(env = "transport", call[f].resp)
         cause == IF env = "transport" THEN "transport"
                  ELSE IF ~Ok(call[f].resp) THEN "status"
                  ELSE IF ~call[f].resp.json THEN "parse"
                  ELSE None
     IN fx' = [fx EXCEPT
          ![f].pc = AfterCleanup(fx[f].pc, out.threw),
          ![f].i = IF fx[f].pc = "teardownCleanup" THEN @ + 1 ELSE @,
          ![f].aborted = @ \/ (fx[f].pc = "teardownCleanup" /\ out.threw),
          ![f].warnings = IF out.warned THEN @ + 1 ELSE @,
          ![f].last = [NoLast EXCEPT
                         !.op = "cleanup", !.email = call[f].email,
                         !.outcome = IF out.threw THEN "threw" ELSE "returned",
                         !.cause = cause,
                         !.status = IF env = "transport" THEN 0
                                    ELSE call[f].resp.status,
                         !.warned = out.warned],
          ![f].rt = IF fx[f].rt.stage = "cleaning" /\ env = "fine"
                          /\ FromServer(call[f].resp)
                    THEN [stage |-> "cleaned", email |-> fx[f].rt.email]
                    ELSE NoRt]
  /\ call' = [call EXCEPT ![f] = IdleCall]
  /\ UNCHANGED <<config, ext, backend, nreq>>

\* --------------------------------------------- the fixture: teardown
\* How the test body can end.  use(auth) resolves when the test is over,
\* whichever way it ended, and the code after it runs then.
Exits == {"passed", "failed", "timedOut"}

\* The teardown as it would be if it ran only after a test that passed.
BodyExitSkipsTeardown(f, how) ==
  /\ fx[f].pc = "body"
  /\ fx' = [fx EXCEPT ![f].pc = IF how = "passed" THEN "teardown" ELSE "done",
                      ![f].i = 1, ![f].exit = how]
  /\ UNCHANGED <<config, ext, backend, call, nreq>>

BodyExit(f, how) ==
  /\ fx[f].pc = "body"
  /\ fx' = [fx EXCEPT ![f].pc = "teardown", ![f].i = 1, ![f].exit = how]
  /\ UNCHANGED <<config, ext, backend, call, nreq>>

TeardownStep(f) ==
  /\ fx[f].pc = "teardown"
  /\ fx[f].i <= Len(fx[f].created)
  /\ TestIdle(f)
  /\ LET email == fx[f].created[fx[f].i]
     IN /\ call' = [call EXCEPT ![f] = CleanupRequest(email)]
        /\ fx' = [g \in Fixtures |->
                   IF g = f
                   THEN [fx[f] EXCEPT !.pc = "teardownCleanup",
                                      !.last = NoLast,
                                      !.cleaned = Append(@, email),
                                      !.rt = RtOnCleanup(f, email)]
                   ELSE Interrupted(g)]
  /\ UNCHANGED <<config, ext, backend, nreq>>

TeardownDone(f) ==
  /\ fx[f].pc = "teardown"
  /\ fx[f].i > Len(fx[f].created)
  /\ fx' = [fx EXCEPT ![f].pc = "done"]
  /\ UNCHANGED <<config, ext, backend, call, nreq>>

\* ------------------------------------- the built-in extensions
\* organizationTest(defaults) and apiKeyTest(defaults): the options of a call
\* are the factory's defaults overlaid with the per-call options.  An option
\* is a key that is absent or carries a value; skip and name are the two keys
\* both extensions read.
NoResult == [kind |-> None, name |-> Absent, id |-> NoId]

ExtInit ==
  [pc |-> "idle", plugin |-> None, hook |-> None, env |-> None,
   opts |-> NoOptions, options |-> NoOptions,
   result |-> NoResult, orgs |-> {}, keys |-> {}, nextRes |-> 1]

\* The user and the session a hook is handed in ctx when it is run on its own.
CtxUser == 1

\* plugin.onCreateUser(ctx, opts) is called: const options = {...defaults, ...opts}
OnCreateUserEnter(p, opts) ==
  /\ ext.pc = "idle"
  /\ ext.nextRes <= MaxResources
  /\ ext' = [ext EXCEPT !.pc = "entered", !.plugin = p, !.opts = opts,
                         !.hook = "onCreateUser", !.env = None,
                         !.options = Merge(defaults[p], opts),
                         !.result = NoResult]
  /\ UNCHANGED <<config, backend, call, fx, nreq>>

\* organizationTest.onCreateUser after the merge: null when skip is set; else
\* the organization, the membership, and the session's activeOrganizationId.
\* getOrgAdapter throws when the organization plugin is not there.
OrganizationOnCreateUser(adapterOk) ==
  /\ ext.pc = "entered"
  /\ ext.plugin = "organization"
  /\ IF Truthy(ext.options.skip)
     THEN /\ adapterOk
          /\ ext' = [ext EXCEPT !.pc = "returned",
                                 !.result = [NoResult EXCEPT !.kind = "null"]]
          /\ UNCHANGED sessions
     ELSE IF ~adapterOk
     THEN /\ ext' = [ext EXCEPT !.pc = "returned",
                                 !.result = [NoResult EXCEPT !.kind = "throw"]]
          /\ UNCHANGED sessions
     ELSE LET id == ext.nextRes
              name == IF ext.options.name # Absent THEN ext.options.name
                      ELSE "user's Org"
          IN /\ ext' = [ext EXCEPT
                   !.pc = "returned",
                   !.orgs = @ \cup {[id |-> id, name |-> name,
                                      member |-> CtxUser, role |-> "owner"]},
                   !.nextRes = @ + 1,
                   !.result = [kind |-> "value", name |-> name, id |-> id]]
             /\ sessions' = {IF x.token = CtxUser
                              THEN [x EXCEPT !.activeOrganizationId = id]
                              ELSE x : x \in sessions}
  /\ UNCHANGED <<config, users, accounts, nextId, call, fx, nreq>>

\* apiKeyTest.onCreateUser after the merge: null when skip is set; else the
\* key record.  importApiKeyPlugin throws when better-auth has no api-key
\* plugin.
ApiKeyOnCreateUser(importOk) ==
  /\ ext.pc = "entered"
  /\ ext.plugin = "api-key"
  /\ IF Truthy(ext.options.skip)
     THEN /\ importOk
          /\ ext' = [ext EXCEPT !.pc = "returned",
                                 !.result = [NoResult EXCEPT !.kind = "null"]]
     ELSE IF ~importOk
     THEN ext' = [ext EXCEPT !.pc = "returned",
                             !.result = [NoResult EXCEPT !.kind = "throw"]]
     ELSE LET id == ext.nextRes
              name == IF ext.options.name # Absent THEN ext.options.name
                      ELSE "test-key"
          IN ext' = [ext EXCEPT
               !.pc = "returned",
               !.keys = @ \cup {[id |-> id, userId |-> CtxUser, name |-> name]},
               !.nextRes = @ + 1,
               !.result = [kind |-> "value", name |-> name, id |-> id]]
  /\ UNCHANGED <<config, backend, call, fx, nreq>>

\* What can happen to apiKeyTest.onDeleteUser: the import of the better-auth
\* plugin fails, adapter.findMany fails, an adapter.delete fails, nothing fails.
DeleteEnvs == {"fine", "importFails", "findFails", "deleteFails"}

\* onDeleteUser as it would be without its try.
ApiKeyDeleteOutcomeUnguarded(env) == IF env = "fine" THEN "done" ELSE "throw"

\* importApiKeyPlugin() is outside the try; findMany and the deletes are in
\* it, and its catch is empty.
ApiKeyDeleteOutcome(env) == IF env = "importFails" THEN "throw" ELSE "done"

\* apiKeyTest.onDeleteUser(ctx, user) run on its own for the user of ctx: the
\* keys of the user are deleted one by one; kept are those not deleted when
\* the hook ends.
ApiKeyOnDeleteUser(env, kept) ==
  /\ ext.pc = "idle"
  /\ LET mine == {k \in ext.keys : k.userId = CtxUser}
     IN /\ kept \subseteq mine
        /\ env = "fine" => kept = {}
        /\ env \in {"importFails", "findFails"} => kept = mine
        /\ env = "deleteFails" => kept # {}
        /\ ext' = [ext EXCEPT
              !.pc = "returned", !.plugin = "api-key", !.hook = "onDeleteUser",
              !.env = env, !.opts = NoOptions, !.options = NoOptions,
              !.result = [NoResult EXCEPT !.kind = ApiKeyDeleteOutcome(env)],
              !.keys = (@ \ mine) \cup kept]
  /\ UNCHANGED <<config, backend, call, fx, nreq>>

\* The caller has the hook's result.
HookReturns ==
  /\ ext.pc = "returned"
  /\ ext' = [ext EXCEPT !.pc = "idle"]
  /\ UNCHANGED <<config, backend, call, fx, nreq>>

\* ------------------------------------------------ the specifications
NameOpts == {None} \cup Names

\* The plugin lists the fixture's runs are checked with.
FixtureRegLists == {<<>>, <<"organization", "mock">>}

InitWith(active, lists) ==
  /\ impl \in {1, 2}
  /\ secret \in {None, "s1"}
  /\ testPlugins \in lists
  /\ users = {}
  /\ accounts = {}
  /\ sessions = {}
  /\ nextId = 1
  /\ call = [c \in Callers |-> IdleCall]
  /\ fx = [f \in Fixtures |-> FxInit(f \in active)]
  /\ nreq = 0
  /\ defaults = [p \in BuiltIn |-> NoOptions]
  /\ hooks = "opaque"
  /\ ext = ExtInit

Server(c) ==
  \/ ServerReceive(c)
  \/ CreateBase(c)
  \/ \E outcome \in CreateOutcomes, rollbackOk \in BOOLEAN :
        PluginStep(c, outcome, rollbackOk)
  \/ Finalize(c)
  \/ FindUser(c)
  \/ \E outcome \in DeleteOutcomes : CleanupStep(c, outcome)
  \/ DeleteUser(c)

Client ==
  \/ \E h \in Headers, e \in Emails, n \in NameOpts, pw \in BOOLEAN,
        hr \in BOOLEAN : DirectProvision(h, e, n, pw, hr)
  \/ \E h \in Headers, e \in Emails : DirectDeprovision(h, e)
  \/ \E h \in Headers : DirectCapabilities(h)
  \/ DirectConsume

Fixture(f) ==
  \/ \E e \in Emails, pw \in BOOLEAN : FxCreateUser(f, e, None, pw)
  \/ \E env \in FetchEnvs : FxCreateUserEnds(f, env)
  \/ \E e \in Emails : FxCleanup(f, e)
  \/ \E env \in FetchEnvs : FxCleanupEnds(f, env)
  \/ \E how \in Exits : BodyExit(f, how)
  \/ TeardownStep(f)
  \/ TeardownDone(f)

\* The server and clients that call its endpoints themselves.
Init == InitWith({}, RegLists)

Next ==
  \/ Server(Direct)
  \/ Client

Spec == Init /\ [][Next]_vars

\* One test with the auth fixture against the server; the test may also delete
\* a user through the endpoint itself.
InitFixture == InitWith({"fx1"}, FixtureRegLists)

NextFixture ==
  \/ \E c \in {"fx1", Direct} : Server(c)
  \/ Fixture("fx1")
  \/ Intermediary("fx1")
  \/ \E e \in Emails : DirectDeprovision(FxSecret, e)
  \/ DirectConsume

SpecFixture == InitFixture /\ [][NextFixture]_vars

\* Two tests on two workers, each with its own auth fixture and its own email,
\* against one server with one extension; a test may also delete a user
\* through the endpoint itself.
OwnEmail(f) == IF f = "fx1" THEN <<"a", "test.local">> ELSE <<"b", "test.local">>

ParallelRegLists == {<<"organization">>}

ParallelFixture(f) ==
  \/ FxCreateUser(f, OwnEmail(f), None, FALSE)
  \/ \E env \in FetchEnvs : FxCreateUserEnds(f, env)
  \/ BodyExit(f, "passed")
  \/ TeardownStep(f)
  \/ \E env \in FetchEnvs : FxCleanupEnds(f, env)
  \/ TeardownDone(f)

InitParallel == InitWith(Fixtures, ParallelRegLists)

NextParallel ==
  \/ \E c \in Callers : Server(c)
  \/ \E f \in Fixtures : ParallelFixture(f)
  \/ \E e \in Emails : DirectDeprovision(FxSecret, e)
  \/ DirectConsume

SpecParallel == InitParallel /\ [][NextParallel]_vars

\* The built-in extensions' onCreateUser run on their own, as the tests of
\* tests/plugins run them: a user and its session exist, the factories were
\* given any defaults, the call any options.
InitPlugins ==
  /\ impl = 1
  /\ secret = "s1"
  /\ testPlugins = <<"organization", "api-key">>
  /\ users = {[id |-> CtxUser, email |-> <<"a", "test.local">>, name |-> "a"]}
  /\ accounts = {}
  /\ sessions = {[token |-> CtxUser, userId |-> CtxUser,
                   activeOrganizationId |-> NoId]}
  /\ nextId = CtxUser + 1
  /\ call = [c \in Callers |-> IdleCall]
  /\ fx = [f \in Fixtures |-> FxInit(FALSE)]
  /\ nreq = 0
  /\ defaults \in [BuiltIn -> DefaultOptions]
  /\ hooks = "opaque"
  /\ ext = ExtInit

NextPlugins ==
  \/ \E p \in BuiltIn, opts \in CallOptions : OnCreateUserEnter(p, opts)
  \/ \E adapterOk \in BOOLEAN : OrganizationOnCreateUser(adapterOk)
  \/ \E importOk \in BOOLEAN : ApiKeyOnCreateUser(importOk)
  \/ \E env \in DeleteEnvs, kept \in SUBSET ext.keys :
        ApiKeyOnDeleteUser(env, kept)
  \/ HookReturns

SpecPlugins == InitPlugins /\ [][NextPlugins]_vars

\* The server with the built-in extensions registered and their hooks
\* followed: provisioning requests with pluginData, and deprovisioning
\* requests, for one email and with the valid secret.
BuiltInRegLists ==
  {<<"organization">>, <<"organization", "api-key">>,
   <<"api-key", "organization">>}

SkipByDefault == [skip |-> "true", name |-> Absent]

BuiltInDefaults == [BuiltIn -> {NoOptions, SkipByDefault}]

\* The pluginData of the requests: omitted, empty, and mappings with a null,
\* with skip set either way, with a name.
PluginDataChoices ==
  {NoPluginData,
   [NoPluginData EXCEPT !.given = TRUE],
   [given |-> TRUE,
    entries |-> [NoPluginData.entries EXCEPT !["organization"] = NullEntry]],
   [given |-> TRUE,
    entries |-> [NoPluginData.entries EXCEPT
                   !["organization"] = Entry([skip |-> "true", name |-> Absent])]],
   [given |-> TRUE,
    entries |-> [NoPluginData.entries EXCEPT
                   !["organization"] =
                     Entry([skip |-> "false", name |-> "override-name"]),
                   !["api-key"] = Entry([skip |-> "true", name |-> Absent])]],
   [given |-> TRUE,
    entries |-> [NoPluginData.entries EXCEPT
                   !["api-key"] = Entry([skip |-> Absent,
                                         name |-> "override-name"])]]}

TheEmail == <<"a", "test.local">>

InitBuiltIn ==
  /\ impl \in {1, 2}
  /\ secret = "s1"
  /\ testPlugins \in BuiltInRegLists
  /\ users = {}
  /\ accounts = {}
  /\ sessions = {}
  /\ nextId = 1
  /\ call = [c \in Callers |-> IdleCall]
  /\ fx = [f \in Fixtures |-> FxInit(FALSE)]
  /\ nreq = 0
  /\ defaults \in BuiltInDefaults
  /\ hooks = "builtIn"
  /\ ext = ExtInit

NextBuiltIn ==
  \/ Server(Direct)
  \/ HookStarts(Direct)
  \/ \E pd \in PluginDataChoices : DirectProvisionWith("s1", TheEmail, pd)
  \/ DirectDeprovision("s1", TheEmail)
  \/ DirectConsume

SpecBuiltIn == InitBuiltIn /\ [][NextBuiltIn]_vars

\* ============================================================= claims
Answered(c) == call[c].pc = "responded"
RouteOf(c) == Route(call[c].method, call[c].path)
Provisioning(c) == Answered(c) /\ RouteOf(c) = "createTestUser"
Deprovisioning(c) == Answered(c) /\ RouteOf(c) = "deleteTestUser"
UserGone(id) ==
  /\ UserById(id) = {}
  /\ {a \in accounts : a.userId = id} = {}
  /\ {x \in sessions : x.userId = id} = {}

\* C1: a provisioning call that succeeds has invoked onCreateUser exactly once
\* per registered plugin, in registration order e1..en; a deprovisioning call
\* for an existing user has invoked onDeleteUser exactly once per plugin that
\* defines it, in the reverse order en..e1.
C1_HookOrder ==
  \A c \in Callers :
    /\ (Provisioning(c) /\ Ok(call[c].resp)) => call[c].createLog = testPlugins
    /\ (Deprovisioning(c) /\ call[c].user # NoId) =>
         LET d == SelectSeq(testPlugins, HasOnDelete)
         IN /\ Len(call[c].deleteLog) = Len(d)
            /\ \A k \in 1..Len(d) : call[c].deleteLog[k] = d[Len(d) + 1 - k]

\* C1 under the first definition of testPlugin alone.
C1_FirstDefinition == impl = 1 => C1_HookOrder

\* C2: when plugin ei throws in onCreateUser, no plugin registered after ei was
\* invoked in that call, and once the call has answered the user it created,
\* with its credential and session, no longer exists.
C2_ThrowStopsAndRollsBack ==
  \A c \in Callers :
    (Provisioning(c) /\ call[c].thrown # <<>>) =>
      /\ \E i \in 1..Len(testPlugins) :
           /\ testPlugins[i] = call[c].thrown[1]
           /\ call[c].createLog = SubSeq(testPlugins, 1, i)
      /\ UserGone(call[c].user)

\* C2 without its rollback half: a throw stops the loop.
C2_ThrowStopsLoop ==
  \A c \in Callers :
    (Provisioning(c) /\ call[c].thrown # <<>>) =>
      \E i \in 1..Len(testPlugins) :
        /\ testPlugins[i] = call[c].thrown[1]
        /\ call[c].createLog = SubSeq(testPlugins, 1, i)

\* C2 under the first definition, when the rollback's deleteUser worked.
C2_FirstDefinition ==
  \A c \in Callers :
    (impl = 1 /\ Provisioning(c) /\ call[c].thrown # <<>>
       /\ ~call[c].resp.rollbackFailed) => UserGone(call[c].user)

\* C3: when ej's onDeleteUser throws in a deprovisioning call for an existing
\* user, every other plugin's onDeleteUser was still invoked, the user is
\* deleted, and the answer is success with a warning naming ej.
C3_CleanupIsolated ==
  \A c \in Callers :
    (Deprovisioning(c) /\ call[c].thrown # <<>>) =>
      /\ \A p \in Range(testPlugins) :
           HasOnDelete(p) => p \in Range(call[c].deleteLog)
      /\ UserGone(call[c].user)
      /\ call[c].resp.status = 200
      /\ call[c].resp.body = "success"
      /\ \A p \in Range(call[c].thrown) : p \in Range(call[c].resp.warnings)

\* C3 under the first definition of testPlugin alone.
C3_FirstDefinition == impl = 1 => C3_CleanupIsolated

C6_MismatchIs401 ==
  \A c \in Callers :
    (Answered(c) /\ secret # None /\ RouteOf(c) # None
       /\ call[c].header # secret) => call[c].resp.status = 401

\* C6 under the first definition of testPlugin alone.
C6_FirstDefinition == impl = 1 => C6_MismatchIs401

\* C4: a createUser that succeeded, followed at once by cleanup of the same
\* email that the server answered, leaves no user with that email.
C4_RoundTripLeavesNoUser ==
  \A f \in Fixtures :
    fx[f].rt.stage = "cleaned" => UserByEmail(fx[f].rt.email) = {}

Count(seq, x) == Cardinality({i \in 1..Len(seq) : seq[i] = x})

InTeardown(f) == fx[f].pc \in {"teardown", "teardownCleanup", "done"}

\* C7 as claimed: at scope exit cleanup has been called exactly once for every
\* email of the tracked list, in creation order.
C7_OncePerEmail ==
  \A f \in Fixtures :
    fx[f].pc = "done" =>
      /\ \A e \in Range(fx[f].created) : Count(fx[f].cleaned, e) = 1
      /\ \A e \in Range(fx[f].cleaned) : e \in Range(fx[f].created)

\* C7 as amended: the teardown calls cleanup exactly once for every entry of
\* created (one entry per createUser that got its response parsed, so an email
\* provisioned twice has two), in creation order, and goes on to the next
\* entry whatever the outcome of a cleanup: while it runs, the calls made are
\* the entries before position i, and at its end they are all of created.
C7_OncePerEntry ==
  \A f \in Fixtures :
    /\ InTeardown(f) =>
         /\ Len(fx[f].cleaned) <= Len(fx[f].created)
         /\ fx[f].cleaned = SubSeq(fx[f].created, 1, Len(fx[f].cleaned))
         /\ fx[f].pc = "teardown" => Len(fx[f].cleaned) = fx[f].i - 1
         /\ fx[f].pc = "teardownCleanup" => Len(fx[f].cleaned) = fx[f].i
    /\ fx[f].pc = "done" => fx[f].cleaned = fx[f].created
    /\ ~InTeardown(f) => fx[f].cleaned = <<>>

\* Two tracked emails, both cleanups failed, both were called.
C7_Witness ==
  /\ fx["fx1"].pc = "done"
  /\ Len(fx["fx1"].created) = 2
  /\ fx["fx1"].created[1] # fx["fx1"].created[2]
  /\ fx["fx1"].warnings = 2
  /\ fx["fx1"].cleaned = fx["fx1"].created

\* C8: however the test body ended (passed, failed, timed out), the fixture
\* is from then on in its teardown, and the teardown ends only after cleanup
\* was called for every tracked email.
C8_TeardownOnEveryExit ==
  \A f \in Fixtures :
    \A how \in Exits :
      fx[f].exit = how =>
        /\ InTeardown(f)
        /\ fx[f].pc = "done" =>
             /\ ~fx[f].aborted
             /\ Len(fx[f].cleaned) = Len(fx[f].created)
             /\ \A k \in 1..Len(fx[f].created) :
                  fx[f].cleaned[k] = fx[f].created[k]

C8_Witness ==
  /\ fx["fx1"].exit = "timedOut"
  /\ fx["fx1"].pc = "done"
  /\ Len(fx["fx1"].created) = 2
  /\ Len(fx["fx1"].cleaned) = 2

\* C9: cleanup never throws: after a transport failure, a response that is not
\* ok, or a body that does not parse, it has logged a warning and returned.
C9_CleanupNeverThrows ==
  \A f \in Fixtures :
    /\ ~fx[f].aborted
    /\ fx[f].last.op = "cleanup" =>
         /\ fx[f].last.outcome = "returned"
         /\ fx[f].last.cause \in {"transport", "status", "parse"} =>
              fx[f].last.warned

C9_Witness ==
  /\ fx["fx1"].last.op = "cleanup"
  /\ fx["fx1"].last.cause = "parse"
  /\ fx["fx1"].last.outcome = "returned"
  /\ fx["fx1"].last.warned

\* C10: createUser throws whenever its request got a response that is not ok
\* (the error carries the status and the body) or the transport failed, and
\* then no cookie is installed and no TestUser returned.
C10_CreateUserFailsLoudly ==
  [][\A f \in Fixtures :
       (/\ fx[f].pc = "createUser"
        /\ fx'[f].pc = "body"
        /\ \/ call[f].pc = "sent"
           \/ fx'[f].last.cause = "transport"
           \/ ~Ok(call[f].resp)) =>
         /\ fx'[f].last.outcome = "threw"
         /\ fx'[f].last.user = NoId
         /\ fx'[f].cookies = fx[f].cookies
         /\ fx'[f].created = fx[f].created
         /\ fx'[f].last.cause # "transport" =>
              /\ fx'[f].last.status = call[f].resp.status
              /\ fx'[f].last.body = call[f].resp.body]_vars

C10_Witness ==
  /\ fx["fx1"].last.op = "createUser"
  /\ fx["fx1"].last.outcome = "threw"
  /\ fx["fx1"].last.cause = "status"
  /\ fx["fx1"].last.status = 500
  /\ fx["fx1"].last.body = "Plugin failed"

\* C11: a provisioning call that answers a failure after it created the user
\* (extension failure, session re-fetch finding nothing, request object
\* missing) leaves no user record of that call in the backend.
C11_FailedProvisioningIsOrphanFree ==
  \A c \in Callers :
    (Provisioning(c) /\ ~Ok(call[c].resp) /\ call[c].user # NoId) =>
      UserById(call[c].user) = {}

\* C12: a provisioning call answers success only if every registered
\* extension's onCreateUser was invoked in that call and none of them threw.
C12_SuccessOnlyAfterAllHooks ==
  \A c \in Callers :
    (Provisioning(c) /\ Ok(call[c].resp)) =>
      /\ call[c].thrown = <<>>
      /\ Len(call[c].returned) = Len(testPlugins)
      /\ \A i \in 1..Len(testPlugins) :
           /\ call[c].createLog[i] = testPlugins[i]
           /\ call[c].returned[i] \in {"value", "null"}

C12_Witness ==
  /\ Provisioning(Direct)
  /\ Ok(call[Direct].resp)
  /\ Len(testPlugins) = 2
  /\ call[Direct].returned = <<"value", "null">>

\* C13: when the session re-fetch after the extensions finds no session, the
\* provisioning call answers 500 and sets no session cookie.
C13_RefetchNothingFails ==
  \A c \in Callers :
    (Provisioning(c) /\ call[c].finalSession = "missing") =>
      /\ call[c].resp.status = 500
      /\ call[c].resp.cookie = NoId

\* C13 under the first definition of testPlugin alone.
C13_FirstDefinition == impl = 1 => C13_RefetchNothingFails

\* C14: with a valid secret and no registered extension, a provisioning call
\* whose user the backend created answers success with the requested email,
\* the requested name or, when the name was omitted, the part of the email
\* before the @, a session id and token that are not empty, and an empty
\* plugins mapping.
C14_BareUser ==
  \A c \in Callers :
    (Provisioning(c) /\ secret # None /\ call[c].header = secret
       /\ testPlugins = <<>> /\ call[c].user # NoId) =>
      /\ call[c].resp.status = 200
      /\ call[c].resp.email = call[c].email
      /\ call[c].resp.name = IF call[c].name = None THEN call[c].email[1]
                              ELSE call[c].name
      /\ call[c].resp.session # NoId
      /\ \A p \in PluginIds : call[c].resp.plugins[p].kind = "unset"

C14_Witness ==
  /\ Provisioning(Direct)
  /\ testPlugins = <<>>
  /\ call[Direct].name = None
  /\ call[Direct].email = <<"a", "test.local">>
  /\ call[Direct].resp.status = 200
  /\ call[Direct].resp.name = "a"

\* C15: in a successful provisioning response the plugins mapping has a key
\* for every registered extension and no other key, and the value under an
\* extension's id is what its onCreateUser returned in this call (null when it
\* skipped).
C15_PluginsMapping ==
  \A c \in Callers :
    (Provisioning(c) /\ Ok(call[c].resp)) =>
      \A p \in PluginIds :
        IF p \in Range(testPlugins)
        THEN \E i \in 1..Len(call[c].returned) :
               /\ call[c].createLog[i] = p
               /\ call[c].resp.plugins[p] =
                    [kind |-> call[c].returned[i], plugin |-> p,
                     user |-> call[c].user]
        ELSE call[c].resp.plugins[p].kind = "unset"

C15_Witness ==
  /\ Provisioning(Direct)
  /\ Ok(call[Direct].resp)
  /\ testPlugins = <<"api-key", "organization">>
  /\ call[Direct].resp.plugins["api-key"].kind = "null"
  /\ call[Direct].resp.plugins["organization"].kind = "value"
  /\ call[Direct].resp.plugins["mock"].kind = "unset"

\* C16: a deprovisioning call that passed the secret gate, for an email no
\* user has, answers the not-found failure, has invoked no onDeleteUser, and
\* deletes nothing.
C16_UnknownEmailIsNotFound ==
  [][\A c \in Callers :
       (/\ call[c].pc = "deleteTestUser"
        /\ call'[c].pc # "deleteTestUser"
        /\ UserByEmail(call[c].email) = {}) =>
         /\ call'[c].pc = "responded"
         /\ call'[c].resp.status = 404
         /\ call'[c].resp.body = "User not found"
         /\ call'[c].deleteLog = <<>>
         /\ users' = users
         /\ accounts' = accounts
         /\ sessions' = sessions]_vars

C16_Witness ==
  /\ Deprovisioning(Direct)
  /\ call[Direct].resp.status = 404
  /\ call[Direct].resp.body = "User not found"
  /\ call[Direct].deleteLog = <<>>
  /\ \E p \in Range(testPlugins) : HasOnDelete(p)
  /\ users # {}

\* C17 as claimed: every successful deprovisioning response carries a warnings
\* list next to success, and the list is empty when no onDeleteUser failed.
C17_AlwaysWarningsList ==
  \A c \in Callers :
    (Deprovisioning(c) /\ Ok(call[c].resp)) =>
      /\ call[c].resp.hasWarnings
      /\ call[c].thrown = <<>> => call[c].resp.warnings = <<>>

\* C17 as amended: every successful deprovisioning response reports success;
\* it carries a warnings list exactly when an onDeleteUser failed, with one
\* entry for every extension that failed, and has no warnings key when none
\* failed.
C17_WarningsOnlyWhenFailed ==
  \A c \in Callers :
    (Deprovisioning(c) /\ Ok(call[c].resp)) =>
      /\ call[c].resp.body = "success"
      /\ call[c].resp.hasWarnings <=> call[c].thrown # <<>>
      /\ call[c].resp.warnings = call[c].thrown

\* A clean deletion after two onDeleteUser calls: success, no warnings key.
C17_Witness ==
  /\ Deprovisioning(Direct)
  /\ Ok(call[Direct].resp)
  /\ Len(call[Direct].deleteLog) = 2
  /\ call[Direct].thrown = <<>>
  /\ ~call[Direct].resp.hasWarnings

\* C18: two fixtures that run side by side share no tracked state: a
\* fixture's created list grows only by its own createUser, by the email of
\* that call, and its teardown calls cleanup for the entries of its own list,
\* all of them, and for no email of the other fixture.
C18_FixturesShareNothing ==
  /\ [](\A f \in Fixtures :
          /\ Range(fx[f].created) \subseteq {OwnEmail(f)}
          /\ Range(fx[f].cleaned) \subseteq {OwnEmail(f)}
          /\ Len(fx[f].cleaned) <= Len(fx[f].created)
          /\ fx[f].pc = "done" => fx[f].cleaned = fx[f].created)
  /\ [][\A f \in Fixtures :
          fx'[f].created # fx[f].created =>
            /\ fx[f].pc = "createUser"
            /\ fx'[f].pc = "body"
            /\ fx'[f].created = Append(fx[f].created, call[f].email)
            /\ \A g \in Fixtures \ {f} : fx'[g].created = fx[g].created]_vars

\* Both fixtures tracked a user and cleaned up while the other was at work.
C18_Witness ==
  /\ fx["fx1"].pc = "done"
  /\ fx["fx1"].created = <<OwnEmail("fx1")>>
  /\ fx["fx1"].cleaned = <<OwnEmail("fx1")>>
  /\ fx["fx2"].pc = "teardownCleanup"
  /\ fx["fx2"].created = <<OwnEmail("fx2")>>
  /\ fx["fx2"].cleaned = <<OwnEmail("fx2")>>

\* Two provisioning calls are in their handlers at the same time.
BothProvisioning(c, d) ==
  /\ c # d
  /\ RouteOf(c) = "createTestUser" /\ RouteOf(d) = "createTestUser"
  /\ call[c].user # NoId /\ call[d].user # NoId

\* C19: provisioning calls for distinct emails that interleave at their
\* awaits keep apart: they create different users, a successful response
\* holds the call's own user, email, session and extension results, and the
\* rollback after an extension failure takes no record but those of the
\* call's own user.
C19_CallsAreIsolated ==
  /\ [](\A c, d \in Callers :
          /\ (BothProvisioning(c, d) /\ call[c].email # call[d].email) =>
                call[c].user # call[d].user
          /\ (Provisioning(c) /\ Ok(call[c].resp)) =>
                /\ call[c].resp.user = call[c].user
                /\ call[c].resp.email = call[c].email
                /\ call[c].resp.session = call[c].token
                /\ call[c].resp.cookie = call[c].token
                /\ \A p \in Range(testPlugins) :
                     call[c].resp.plugins[p].user = call[c].user)
  /\ [][\A c \in Callers :
          (/\ call[c].pc = "plugins"
           /\ call'[c].pc = "responded"
           /\ call'[c].thrown # <<>>) =>
            /\ UsersWithout(call[c].user) \subseteq users'
            /\ AccountsWithout(call[c].user) \subseteq accounts'
            /\ SessionsWithout(call[c].user) \subseteq sessions']_vars

\* One call was rolled back while the other call's user was there, and is.
C19_Witness ==
  /\ impl = 1
  /\ Provisioning("fx1")
  /\ call["fx1"].thrown # <<>>
  /\ UserById(call["fx1"].user) = {}
  /\ call["fx2"].pc = "plugins"
  /\ call["fx2"].user < call["fx1"].user
  /\ UserById(call["fx2"].user) # {}

\* skip as the claim has it: the per-call value when the call gave one, else
\* the factory's default.
ExpectedSkip ==
  IF ext.opts.skip # Absent THEN ext.opts.skip = "true"
  ELSE defaults[ext.plugin].skip = "true"

\* C20: onCreateUser of the api-key and the organization extension returns
\* null and creates nothing when skip is set in the merged options, where a
\* per-call skip wins over the factory's default; and it does not skip
\* otherwise.
C20_SkipAfterMerge ==
  /\ []((ext.pc = "returned" /\ ext.hook = "onCreateUser") =>
         (ExpectedSkip <=> ext.result.kind = "null"))
  /\ [][(ext.pc = "entered" /\ ext'.pc = "returned" /\ ExpectedSkip) =>
          /\ ext'.result.kind = "null"
          /\ ext'.orgs = ext.orgs
          /\ ext'.keys = ext.keys
          /\ sessions' = sessions]_vars

\* Default skip:true, per-call skip:false: the key is created, with the
\* per-call name.
C20_Witness ==
  /\ ext.pc = "returned"
  /\ ext.plugin = "api-key"
  /\ defaults["api-key"] = [skip |-> "true", name |-> "default-name"]
  /\ ext.opts = [skip |-> "false", name |-> "override-name"]
  /\ ext.result.kind = "value"
  /\ ext.result.name = "override-name"

\* C25: when an extension fails during provisioning the answer is a 500 that
\* names the failing extension and carries the message of its error; when the
\* rollback's deletion of the user failed as well, the answer still carries
\* both and notes that the rollback failed.
C25_FailureNamesExtension ==
  \A c \in Callers :
    (Provisioning(c) /\ call[c].thrown # <<>>) =>
      /\ call[c].resp.status = 500
      /\ call[c].resp.plugin = call[c].thrown[1]
      /\ call[c].resp.message = HookError
      /\ UserById(call[c].user) # {} => call[c].resp.rollbackFailed

\* C25 under the first definition of testPlugin alone.
C25_FirstDefinition == impl = 1 => C25_FailureNamesExtension

\* The rows of a user.
AccountsOf(id) == {a \in accounts : a.userId = id}
SessionsOf(id) == {x \in sessions : x.userId = id}

\* C27: from the moment a provisioning call has its user, before the first
\* onCreateUser and as long as the user is there, the user has a credential
\* (provider "credential", the hashed password) exactly if the request gave a
\* password, and exactly one session, the one of this call.
C27_CredentialIffPassword ==
  \A c \in Callers :
    (RouteOf(c) = "createTestUser" /\ call[c].user # NoId
       /\ UserById(call[c].user) # {}) =>
      /\ AccountsOf(call[c].user) =
           IF call[c].password
           THEN {[userId |-> call[c].user, providerId |-> "credential",
                  password |-> HashedPassword]}
           ELSE {}
      /\ SessionsOf(call[c].user) =
           {[token |-> call[c].token, userId |-> call[c].user,
             activeOrganizationId |-> NoId]}

\* The user, its session and its credential are there and no hook has run.
C27_Witness ==
  /\ call[Direct].pc = "plugins"
  /\ call[Direct].idx = 1
  /\ call[Direct].createLog = <<>>
  /\ Len(testPlugins) = 2
  /\ call[Direct].password
  /\ Cardinality(AccountsOf(call[Direct].user)) = 1
  /\ Cardinality(SessionsOf(call[Direct].user)) = 1

\* C29: when createUser fails at the transport after the server has created
\* the user and answered, the email is not pushed onto created and the user
\* stays in the backend; and the teardown calls cleanup for entries of created
\* only.
C29_LostResponseLeavesUser ==
  /\ [](\A f \in Fixtures : Range(fx[f].cleaned) \subseteq Range(fx[f].created))
  /\ [][\A f \in Fixtures :
          (/\ fx[f].pc = "createUser"
           /\ fx'[f].pc = "body"
           /\ fx'[f].last.cause = "transport"
           /\ call[f].pc = "responded"
           /\ call[f].resp.user # NoId) =>
            /\ fx'[f].last.outcome = "threw"
            /\ fx'[f].created = fx[f].created
            /\ users' = users
            /\ UserById(call[f].resp.user) # {}]_vars

\* The scope has ended, nothing was tracked or cleaned, a user is there.
C29_Witness ==
  /\ fx["fx1"].pc = "done"
  /\ fx["fx1"].created = <<>>
  /\ fx["fx1"].cleaned = <<>>
  /\ UserByEmail(<<"a", "test.local">>) # {}

\* C30: createUser pushes the email onto created only when the response was
\* ok and its body parsed, and does so before it installs the cookies: it
\* is pushed whenever createUser returns a TestUser, and also when installing
\* the cookies fails.
C30_TrackedBeforeCookies ==
  [][\A f \in Fixtures :
       (fx[f].pc = "createUser" /\ fx'[f].pc = "body") =>
         /\ fx'[f].created # fx[f].created =>
              /\ call[f].pc = "responded"
              /\ Ok(call[f].resp)
              /\ call[f].resp.json
              /\ fx'[f].last.cause \notin {"transport", "status", "parse"}
         /\ fx'[f].last.outcome = "returned" =>
              fx'[f].created = Append(fx[f].created, call[f].email)
         /\ fx'[f].last.cause = "addCookies" =>
              /\ fx'[f].last.outcome = "threw"
              /\ fx'[f].created = Append(fx[f].created, call[f].email)
              /\ fx'[f].cookies = fx[f].cookies]_vars

\* Installing the cookies failed; the email is tracked, no cookie is there.
C30_Witness ==
  /\ fx["fx1"].last.op = "createUser"
  /\ fx["fx1"].last.cause = "addCookies"
  /\ fx["fx1"].created = <<fx["fx1"].last.email>>
  /\ fx["fx1"].cookies = {}

\* C21: onDeleteUser of the api-key extension resolves when adapter.findMany
\* or an adapter.delete fails: it does not throw, so the deprovisioning loop
\* has no error of it to record as a warning.
C21_AdapterErrorsSwallowed ==
  (ext.pc = "returned" /\ ext.hook = "onDeleteUser"
     /\ ext.env \in {"findFails", "deleteFails"}) =>
    ext.result.kind = "done"

\* A delete failed, a key of the user is still there, the hook resolved.
C21_Witness ==
  /\ ext.pc = "returned"
  /\ ext.hook = "onDeleteUser"
  /\ ext.env = "deleteFails"
  /\ ext.result.kind = "done"
  /\ \E k \in ext.keys : k.userId = CtxUser

\* The organizations a user is a member of.
OrgsOf(id) == {o \in ext.orgs : o.member = id}

\* C22: with the organization extension registered, a user provisioned
\* without skip has one organization, is its member, and the session has
\* that organization as activeOrganizationId; after a deprovisioning call for
\* the user that succeeded, with the extension's onDeleteUser not failing,
\* no organization of the user is left.
C22_OrganizationRoundTrip ==
  \A c \in Callers :
    /\ (Provisioning(c) /\ Ok(call[c].resp)
          /\ call[c].resp.plugins["organization"].kind = "value") =>
         /\ Cardinality(OrgsOf(call[c].user)) = 1
         /\ \A o \in OrgsOf(call[c].user) :
              SessionByToken(call[c].token) =
                {[token |-> call[c].token, userId |-> call[c].user,
                  activeOrganizationId |-> o.id]}
    /\ (Provisioning(c) /\ Ok(call[c].resp)
          /\ call[c].resp.plugins["organization"].kind = "null") =>
         OrgsOf(call[c].user) = {}
    /\ (Deprovisioning(c) /\ Ok(call[c].resp)
          /\ "organization" \notin Range(call[c].thrown)) =>
         OrgsOf(call[c].user) = {}

\* A user was provisioned with an organization, the deprovisioning call for
\* the user has answered, and the organization is gone.
C22_Witness ==
  /\ testPlugins = <<"organization">>
  /\ Deprovisioning(Direct)
  /\ Ok(call[Direct].resp)
  /\ call[Direct].deleteLog = <<"organization">>
  /\ ext.nextRes = 2
  /\ ext.orgs = {}

\* C23: two hooks of one call are never in progress at the same time: the
\* hook in progress, if any, is the one of the plugin the loop is at, and the
\* hooks before it in the loop's order have ended.
C23_OneHookAtATime ==
  \A c \in Callers :
    /\ Cardinality(call[c].running) <= 1
    /\ call[c].running # {} =>
         /\ call[c].pc \in {"plugins", "cleanup"}
         /\ call[c].pc = "plugins" =>
              /\ call[c].running = {testPlugins[call[c].idx]}
              /\ Len(call[c].createLog) = call[c].idx - 1
         /\ call[c].pc = "cleanup" =>
              call[c].running = {CleanupOrder[call[c].idx]}

\* The second onDeleteUser of a call is in progress, the first has ended.
C23_Witness ==
  /\ Len(CleanupOrder) = 2
  /\ call[Direct].pc = "cleanup"
  /\ call[Direct].idx = 2
  /\ Len(call[Direct].deleteLog) = 1
  /\ call[Direct].running = {CleanupOrder[2]}

\* C24: a provisioning call sets the session cookie only after every
\* onCreateUser has ended, only when it answers success, and from the session
\* it re-fetched after the hooks.
C24_CookieFromRefetchedSession ==
  \A c \in Callers :
    (Provisioning(c) /\ call[c].resp.cookie # NoId) =>
      /\ Ok(call[c].resp)
      /\ call[c].thrown = <<>>
      /\ Len(call[c].returned) = Len(testPlugins)
      /\ call[c].finalSession = "found"

\* C24 under the first definition of testPlugin alone.
C24_FirstDefinition == impl = 1 => C24_CookieFromRefetchedSession

\* C24 for the organization extension, with the session found again: the
\* cookie is built from a session that has the activeOrganizationId the hook
\* set.
C24_CookieHasHookMutation ==
  \A c \in Callers :
    (Provisioning(c) /\ call[c].resp.cookie # NoId
       /\ call[c].resp.plugins["organization"].kind = "value") =>
      \E o \in OrgsOf(call[c].user) : call[c].resp.cookieOrg = o.id

\* C26: the rollback after a failed onCreateUser calls no onDeleteUser,
\* neither of the plugin that failed nor of those whose onCreateUser had
\* succeeded in the call: what these created stays, and of the user table
\* only the call's own user goes.
C26_RollbackCallsNoHook ==
  /\ [](\A c \in Callers : Provisioning(c) => call[c].deleteLog = <<>>)
  /\ [][\A c \in Callers :
          (/\ call[c].pc = "plugins"
           /\ call'[c].pc = "responded"
           /\ call'[c].thrown # <<>>) =>
            /\ call'[c].deleteLog = <<>>
            /\ call'[c].running = {}
            /\ ext'.orgs = ext.orgs
            /\ ext'.keys = ext.keys
            /\ UsersWithout(call[c].user) \subseteq users'
            /\ users' \subseteq users]_vars

\* The api-key extension failed after the organization extension had made an
\* organization: the user is rolled back, the organization is there.
C26_Witness ==
  /\ impl = 1
  /\ Provisioning(Direct)
  /\ call[Direct].thrown = <<"api-key">>
  /\ UserById(call[Direct].user) = {}
  /\ OrgsOf(call[Direct].user) # {}

\* C28: the opts an onCreateUser is invoked with are the entry of pluginData
\* under the plugin's own id, and the empty object when pluginData is
\* omitted or has no entry (or null) under that id.
C28_OwnOptions ==
  \A c \in Callers :
    \A p \in PluginIds :
      call[c].received[p].called =>
        /\ p \in Range(testPlugins)
        /\ call[c].received[p].opts =
             IF call[c].pluginData.given
                  /\ call[c].pluginData.entries[p].kind = "value"
             THEN call[c].pluginData.entries[p].value
             ELSE NoOptions

\* Two hooks of one call were handed different options, each its own.
C28_Witness ==
  /\ call[Direct].received["organization"] =
       [called |-> TRUE, opts |-> [skip |-> "false", name |-> "override-name"]]
  /\ call[Direct].received["api-key"] =
       [called |-> TRUE, opts |-> [skip |-> "true", name |-> Absent]]

\* A call that the secret gate of an endpoint has answered: 404 with no secret
\* configured, or 401.
RejectedByGate(r) ==
  /\ r.pc = "responded"
  /\ Route(r.method, r.path) # None
  /\ \/ secret = None /\ r.resp.status = 404
     \/ r.resp.status = 401

\* C31: a request the secret gate rejects, with 404 when no secret is
\* configured or with 401 when the header is not the secret, changes nothing:
\* the step that answers it leaves users, credentials, sessions and what the
\* extensions made as they were, and the call has invoked no hook and set no
\* cookie.
C31_RejectedChangesNothing ==
  /\ [](\A c \in Callers :
          RejectedByGate(call[c]) =>
            /\ call[c].createLog = <<>>
            /\ call[c].deleteLog = <<>>
            /\ call[c].running = {}
            /\ \A p \in PluginIds : ~call[c].received[p].called
            /\ call[c].user = NoId
            /\ call[c].resp.cookie = NoId
            /\ call[c].resp.user = NoId)
  /\ [][\A c \in Callers :
          (call[c].pc = "sent" /\ RejectedByGate(call'[c])) =>
            /\ users' = users
            /\ accounts' = accounts
            /\ sessions' = sessions
            /\ nextId' = nextId
            /\ ext' = ext]_vars

\* A DELETE for a user that exists, with a header that is not the secret, was
\* answered 401 and the user is still there.
C31_Witness ==
  /\ secret # None
  /\ call[Direct].header # secret
  /\ Deprovisioning(Direct)
  /\ call[Direct].resp.status = 401
  /\ UserByEmail(call[Direct].email) # {}

====
